---- MODULE Spec2Model ----
(***************************************************************************)
(* A model of src/pointer_array.c: array_sum_ptr, array_reverse_ptr,       *)
(* array_copy_ptr and array_max_ptr.                                       *)
(*                                                                         *)
(* Memory is a sequence of int cells; a pointer is the 1-based index of a  *)
(* cell and NULL is 0, so that pointer arithmetic and pointer comparison   *)
(* are integer arithmetic and comparison.  One behaviour is one call: Init *)
(* draws the function, its arguments and the caller's memory, and each     *)
(* action is one statement (or one loop iteration) of the function called. *)
(* The variables rd, wr, okw, swaps and iters only record what the call    *)
(* has done; mem0 and okslot0 keep the caller's data as it was at entry.   *)
(***************************************************************************)
EXTENDS Integers, Sequences, FiniteSets

\* ---------------------------------------------------------------- bounds
\* Largest length array_sum_ptr, array_reverse_ptr and array_max_ptr are
\* called with.
MaxLen == 5
\* Largest length array_copy_ptr is called with (a call has two arrays).
MaxCopyLen == 3

\* ------------------------------------------------------------- constants
\* <limits.h>, 32-bit int.
INT_MAX == 2147483647
INT_MIN == -INT_MAX - 1
\* <stddef.h>.
NULL == 0
\* The two status codes of array_reverse_ptr and array_copy_ptr.
SUCCESS == 0
INVALID == -1

\* The values array elements are drawn from.
Vals == {INT_MIN, 1, INT_MAX}
\* What the caller's validity variable may hold before the call.
OkVals == {0, 1, 2}
\* The address of a validity variable of the caller that is an object of
\* its own, apart from the array cells.
OkAddr == 2 * (MaxLen + MaxCopyLen) + 1

VARIABLES
    fn,        \* the function called: "sum", "reverse", "copy" or "max"
    arr, len,  \* parameters (lines 23, 52, 119); len also of array_copy_ptr
    dst, src,  \* parameters of array_copy_ptr (line 89)
    ok,        \* parameter of array_max_ptr (line 119): NULL, OkAddr or the
               \* address of an array cell
    mem,       \* the caller's int cells
    okslot,    \* the caller's validity variable at OkAddr
    pc,        \* "entry", "check", "loop", "swap", "exit", "done" or "trap"
    ret,       \* the value returned, once pc = "done"
    p, end, sum,       \* locals, lines 30-32 (p, end also 128-129, end 97)
    left, right, tmp,  \* locals of array_reverse_ptr, lines 59, 60, 68
    d, s,              \* locals of array_copy_ptr, lines 95, 96
    maxv,              \* local of array_max_ptr, line 130
    mem0, okslot0,     \* mem and okslot as they were at entry
    rd, wr,    \* the addresses of the cells read and written so far
    okw,       \* the number of writes to *ok so far
    swaps,     \* the number of swaps array_reverse_ptr has made
    iters      \* the number of times a loop body has been entered

args == <<fn, arr, len, dst, src, ok>>
locals == <<p, end, sum, left, right, tmp, d, s, maxv>>
entry == <<mem0, okslot0>>
vars == <<args, mem, okslot, pc, ret, locals, entry, rd, wr, okw, swaps, iters>>

\* ------------------------------------------------------------ arithmetic
\* a + b leaves the range of int: signed overflow, undefined in C.
AddOverflows(a, b) ==
    \/ b > 0 /\ a > INT_MAX - b
    \/ b < 0 /\ a < INT_MIN - b

\* a + b reduced to 32 bits (two's complement), computed without leaving
\* the range of int.
WrapAdd(a, b) ==
    IF b > 0 /\ a > INT_MAX - b THEN (a + INT_MIN) + (b + INT_MIN)
    ELSE IF b < 0 /\ a < INT_MIN - b THEN (a - INT_MIN) + (b - INT_MIN)
    ELSE a + b

\* The cells a call of length n on pointer q is entitled to touch.
Range(q, n) == IF q = NULL THEN {} ELSE q .. (q + n - 1)

Overlap(q1, q2, n) == Range(q1, n) \cap Range(q2, n) # {}

\* ------------------------------------------------------------------ Init
\* The locals before the function has assigned them, and an empty record
\* of the call.
Fresh ==
    /\ pc = "entry" /\ ret = 0
    /\ p = NULL /\ end = NULL /\ sum = 0 /\ left = NULL /\ right = NULL
    /\ tmp = 0 /\ d = NULL /\ s = NULL /\ maxv = 0
    /\ mem0 = mem /\ okslot0 = okslot
    /\ rd = {} /\ wr = {} /\ okw = 0 /\ swaps = 0 /\ iters = 0

\* array_sum_ptr(arr, len): the caller's array is cells 1..len.
InitSum ==
    /\ fn = "sum"
    /\ len \in 0..MaxLen
    /\ mem \in [1..len -> Vals]
    /\ arr \in {NULL, 1}
    /\ dst = NULL /\ src = NULL /\ ok = NULL /\ okslot = 0

\* array_reverse_ptr(arr, len).
InitReverse ==
    /\ fn = "reverse"
    /\ len \in 0..MaxLen
    /\ mem \in [1..len -> Vals]
    /\ arr \in {NULL, 1}
    /\ dst = NULL /\ src = NULL /\ ok = NULL /\ okslot = 0

\* array_copy_ptr(dst, src, len): the source is cells 1..len, followed by
\* the destination, cells len+1..2*len; a destination of src + 1 overlaps
\* the source.
InitCopy ==
    /\ fn = "copy"
    /\ len \in 0..MaxCopyLen
    /\ mem \in [1..(2 * len) -> Vals]
    /\ src \in {NULL, 1}
    /\ dst \in {NULL, len + 1} \cup (IF len >= 2 THEN {2} ELSE {})
    /\ arr = NULL /\ ok = NULL /\ okslot = 0

\* array_max_ptr(arr, len, ok): ok is NULL, or points to a validity
\* variable of its own, which holds any value, or points to one of the
\* cells 1..len: the parameters are plain pointers, and nothing keeps a
\* caller from passing &a[i] as ok.
InitMax ==
    /\ fn = "max"
    /\ len \in 0..MaxLen
    /\ mem \in [1..len -> Vals]
    /\ arr \in {NULL, 1}
    /\ ok \in {NULL, OkAddr} \cup (1..len)
    /\ okslot \in OkVals
    /\ dst = NULL /\ src = NULL

Init == (InitSum \/ InitReverse \/ InitCopy \/ InitMax) /\ Fresh

\* A call returns v.
Return(v) == pc' = "done" /\ ret' = v

\* ---------------------------------------------------------- array_sum_ptr
\* if (arr == NULL && len > 0)
SumIsInvalid(a, n) == a = NULL /\ n > 0

\* if (arr == NULL && len > 0) return 0;
SumInvalid ==
    /\ fn = "sum" /\ pc = "entry"
    /\ SumIsInvalid(arr, len)
    /\ Return(0)
    /\ UNCHANGED <<args, mem, okslot, locals, entry, rd, wr, okw, swaps, iters>>

\* p = arr; end = arr + len; sum = 0;
\* With arr = NULL the guard leaves len = 0, and NULL + 0 is NULL in every
\* build: the loop condition NULL < NULL is false.
SumEntry ==
    /\ fn = "sum" /\ pc = "entry"
    /\ ~SumIsInvalid(arr, len)
    /\ p' = arr /\ end' = arr + len /\ sum' = 0
    /\ pc' = "loop"
    /\ UNCHANGED <<args, mem, okslot, ret, left, right, tmp, d, s, maxv,
                   entry, rd, wr, okw, swaps, iters>>

\* while (p < end) { sum += *p; ++p; }
\* The addition is a signed int addition: when it overflows the behaviour
\* is undefined, and a build either wraps (plain gcc or clang code) or
\* aborts the program (-ftrapv, a trapping sanitizer).
SumStep ==
    /\ fn = "sum" /\ pc = "loop"
    /\ p < end
    /\ rd' = rd \cup {p}
    /\ iters' = iters + 1
    /\ \/ /\ ~AddOverflows(sum, mem[p])
          /\ sum' = sum + mem[p] /\ p' = p + 1 /\ pc' = pc
       \/ /\ AddOverflows(sum, mem[p])
          /\ sum' = WrapAdd(sum, mem[p]) /\ p' = p + 1 /\ pc' = pc
       \/ /\ AddOverflows(sum, mem[p])
          /\ pc' = "trap" /\ UNCHANGED <<sum, p>>
    /\ UNCHANGED <<args, mem, okslot, ret, end, left, right, tmp, d, s, maxv,
                   entry, wr, okw, swaps>>

\* return sum;
SumReturn ==
    /\ fn = "sum" /\ pc = "loop"
    /\ ~(p < end)
    /\ Return(sum)
    /\ UNCHANGED <<args, mem, okslot, locals, entry, rd, wr, okw, swaps, iters>>

\* ------------------------------------------------------ array_reverse_ptr
\* ReverseIsInvalid without the test of len.
ReverseIsInvalid_AnyLen(a, n) == a = NULL

\* if (arr == NULL && len > 0)
ReverseIsInvalid(a, n) == a = NULL /\ n > 0

\* if (arr == NULL && len > 0) return -1;
ReverseInvalid ==
    /\ fn = "reverse" /\ pc = "entry"
    /\ ReverseIsInvalid(arr, len)
    /\ Return(INVALID)
    /\ UNCHANGED <<args, mem, okslot, locals, entry, rd, wr, okw, swaps, iters>>

\* left = arr; right = arr + len;
ReverseEntry ==
    /\ fn = "reverse" /\ pc = "entry"
    /\ ~ReverseIsInvalid(arr, len)
    /\ left' = arr /\ right' = arr + len
    /\ pc' = "loop"
    /\ UNCHANGED <<args, mem, okslot, ret, p, end, sum, tmp, d, s, maxv,
                   entry, rd, wr, okw, swaps, iters>>

\* ReverseBreak left out: the loop relies on its condition alone.
ReverseBreak_Never(l, r) == FALSE

\* if (left >= right) break;   -- evaluated after --right
ReverseBreak(l, r) == l >= r

\* while (left < right) { --right; if (left >= right) break; ...
ReverseDec ==
    /\ fn = "reverse" /\ pc = "loop"
    /\ left < right
    /\ right' = right - 1
    /\ iters' = iters + 1
    /\ pc' = IF ReverseBreak(left, right') THEN "exit" ELSE "swap"
    /\ UNCHANGED <<args, mem, okslot, ret, p, end, sum, left, tmp, d, s, maxv,
                   entry, rd, wr, okw, swaps>>

\* ReverseSwap without the temporary: *left = *right; *right = *left;
ReverseSwap_NoTmp ==
    /\ fn = "reverse" /\ pc = "swap"
    /\ tmp' = tmp
    /\ mem' = [mem EXCEPT ![left] = mem[right]]
    /\ left' = left + 1
    /\ rd' = rd \cup {left, right}
    /\ wr' = wr \cup {left, right}
    /\ swaps' = swaps + 1
    /\ pc' = "loop"
    /\ UNCHANGED <<args, okslot, ret, p, end, sum, right, d, s, maxv,
                   entry, okw, iters>>

\* ... tmp = *left; *left = *right; *right = tmp; ++left; }
ReverseSwap ==
    /\ fn = "reverse" /\ pc = "swap"
    /\ tmp' = mem[left]
    /\ mem' = [[mem EXCEPT ![left] = mem[right]] EXCEPT ![right] = tmp']
    /\ left' = left + 1
    /\ rd' = rd \cup {left, right}
    /\ wr' = wr \cup {left, right}
    /\ swaps' = swaps + 1
    /\ pc' = "loop"
    /\ UNCHANGED <<args, okslot, ret, p, end, sum, right, d, s, maxv,
                   entry, okw, iters>>

\* return 0;   -- the loop condition failed, or the break was taken
ReverseReturn ==
    /\ fn = "reverse"
    /\ \/ pc = "loop" /\ ~(left < right)
       \/ pc = "exit"
    /\ Return(SUCCESS)
    /\ UNCHANGED <<args, mem, okslot, locals, entry, rd, wr, okw, swaps, iters>>

\* --------------------------------------------------------- array_copy_ptr
\* CopyIsInvalid with && for ||.
CopyIsInvalid_And(dp, sp, n) == (dp = NULL /\ sp = NULL) /\ n > 0

\* if ((dst == NULL || src == NULL) && len > 0)
CopyIsInvalid(dp, sp, n) == (dp = NULL \/ sp = NULL) /\ n > 0

\* if ((dst == NULL || src == NULL) && len > 0) return -1;
CopyInvalid ==
    /\ fn = "copy" /\ pc = "entry"
    /\ CopyIsInvalid(dst, src, len)
    /\ Return(INVALID)
    /\ UNCHANGED <<args, mem, okslot, locals, entry, rd, wr, okw, swaps, iters>>

\* d = dst; s = src; end = src + len;
CopyEntry ==
    /\ fn = "copy" /\ pc = "entry"
    /\ ~CopyIsInvalid(dst, src, len)
    /\ d' = dst /\ s' = src /\ end' = src + len
    /\ pc' = "loop"
    /\ UNCHANGED <<args, mem, okslot, ret, p, sum, left, right, tmp, maxv,
                   entry, rd, wr, okw, swaps, iters>>

\* CopyMore stopping one element early.
CopyMore_OffByOne(sp, e) == sp < e - 1

\* while (s < end)
CopyMore(sp, e) == sp < e

\* while (s < end) { *d = *s; ++d; ++s; }
CopyStep ==
    /\ fn = "copy" /\ pc = "loop"
    /\ CopyMore(s, end)
    /\ mem' = [mem EXCEPT ![d] = mem[s]]
    /\ d' = d + 1 /\ s' = s + 1
    /\ rd' = rd \cup {s}
    /\ wr' = wr \cup {d}
    /\ iters' = iters + 1
    /\ UNCHANGED <<args, okslot, pc, ret, p, end, sum, left, right, tmp, maxv,
                   entry, okw, swaps>>

\* return 0;
CopyReturn ==
    /\ fn = "copy" /\ pc = "loop"
    /\ ~CopyMore(s, end)
    /\ Return(SUCCESS)
    /\ UNCHANGED <<args, mem, okslot, locals, entry, rd, wr, okw, swaps, iters>>

\* ---------------------------------------------------------- array_max_ptr
\* The int ok points to: an array cell, or the variable at OkAddr.
OkValue == IF ok \in DOMAIN mem THEN mem[ok] ELSE okslot

\* if (ok != NULL) *ok = v;
StoreOk(v) ==
    IF ok = NULL
    THEN UNCHANGED <<mem, okslot, wr, okw>>
    ELSE /\ okw' = okw + 1
         /\ IF ok \in DOMAIN mem
            THEN /\ mem' = [mem EXCEPT ![ok] = v]
                 /\ wr' = wr \cup {ok}
                 /\ okslot' = okslot
            ELSE /\ okslot' = v
                 /\ UNCHANGED <<mem, wr>>

\* MaxClearOk without the write of 0.
MaxClearOk_Skip ==
    /\ fn = "max" /\ pc = "entry"
    /\ pc' = "check"
    /\ UNCHANGED <<args, mem, okslot, okw, ret, locals, entry, rd, wr, swaps, iters>>

\* MaxClearOk writing 1, the success value, ahead of the scan.
MaxClearOk_Optimistic ==
    /\ fn = "max" /\ pc = "entry"
    /\ StoreOk(1)
    /\ pc' = "check"
    /\ UNCHANGED <<args, ret, locals, entry, rd, swaps, iters>>

\* if (ok != NULL) *ok = 0;
MaxClearOk ==
    /\ fn = "max" /\ pc = "entry"
    /\ StoreOk(0)
    /\ pc' = "check"
    /\ UNCHANGED <<args, ret, locals, entry, rd, swaps, iters>>

\* if (arr == NULL || len == 0)
MaxIsInvalid(a, n) == a = NULL \/ n = 0

\* if (arr == NULL || len == 0) return INT_MIN;
MaxInvalid ==
    /\ fn = "max" /\ pc = "check"
    /\ MaxIsInvalid(arr, len)
    /\ Return(INT_MIN)
    /\ UNCHANGED <<args, mem, okslot, locals, entry, rd, wr, okw, swaps, iters>>

\* p = arr; end = arr + len; maxv = *p; ++p;
MaxEntry ==
    /\ fn = "max" /\ pc = "check"
    /\ ~MaxIsInvalid(arr, len)
    /\ end' = arr + len
    /\ maxv' = mem[arr]
    /\ p' = arr + 1
    /\ rd' = rd \cup {arr}
    /\ pc' = "loop"
    /\ UNCHANGED <<args, mem, okslot, ret, sum, left, right, tmp, d, s,
                   entry, wr, okw, swaps, iters>>

\* MaxOf with the comparison turned around.
MaxOf_Smaller(m, v) == IF v < m THEN v ELSE m

\* if (*p > maxv) maxv = *p;
MaxOf(m, v) == IF v > m THEN v ELSE m

\* while (p < end) { if (*p > maxv) maxv = *p; ++p; }
MaxStep ==
    /\ fn = "max" /\ pc = "loop"
    /\ p < end
    /\ maxv' = MaxOf(maxv, mem[p])
    /\ p' = p + 1
    /\ rd' = rd \cup {p}
    /\ iters' = iters + 1
    /\ UNCHANGED <<args, mem, okslot, pc, ret, end, sum, left, right, tmp, d, s,
                   entry, wr, okw, swaps>>

\* MaxReturn without the write of 1.
MaxReturn_NoSetOk ==
    /\ fn = "max" /\ pc = "loop"
    /\ ~(p < end)
    /\ Return(maxv)
    /\ UNCHANGED <<args, mem, okslot, okw, locals, entry, rd, wr, swaps, iters>>

\* if (ok != NULL) *ok = 1; return maxv;
MaxReturn ==
    /\ fn = "max" /\ pc = "loop"
    /\ ~(p < end)
    /\ StoreOk(1)
    /\ Return(maxv)
    /\ UNCHANGED <<args, locals, entry, rd, swaps, iters>>

\* ------------------------------------------------------------------ Next
Next ==
    \/ SumInvalid \/ SumEntry \/ SumStep \/ SumReturn
    \/ ReverseInvalid \/ ReverseEntry \/ ReverseDec \/ ReverseSwap \/ ReverseReturn
    \/ CopyInvalid \/ CopyEntry \/ CopyStep \/ CopyReturn
    \/ MaxClearOk \/ MaxInvalid \/ MaxEntry \/ MaxStep \/ MaxReturn

Spec == Init /\ [][Next]_vars

\* Every statement of a call is executed once the one before it is: the
\* functions are sequential code that neither blocks nor waits.
FairSpec == Spec /\ WF_vars(Next)

\* ================================================================ claims
Done == pc = "done"

\* Element i (from 0) of the array at q in memory m.
At(m, q, i) == m[q + i]

Idx == 0..(len - 1)

\* C1: array_reverse_ptr on a present sequence of length L >= 0 returns 0
\* and leaves a'[i] = a[L-1-i] for every i in [0, L); for L = 0 and L = 1
\* the sequence is unchanged.
C1_ReverseReverses ==
    (fn = "reverse" /\ arr # NULL /\ Done) =>
        /\ ret = SUCCESS
        /\ \A i \in Idx : At(mem, arr, i) = At(mem0, arr, len - 1 - i)
        /\ len <= 1 => mem = mem0

\* A reversal of at least three elements that changed the array.
C1_Witness ==
    /\ fn = "reverse" /\ arr # NULL /\ Done
    /\ len >= 3 /\ swaps >= 1 /\ mem # mem0
    /\ At(mem, arr, 0) = At(mem0, arr, len - 1)

\* C2: array_copy_ptr on present, non-overlapping sequences of length
\* L >= 0 returns 0, ends with dst[i] = src[i] for every i in [0, L), and
\* leaves every element of src as it was.
C2_CopyCopies ==
    (fn = "copy" /\ dst # NULL /\ src # NULL /\ ~Overlap(dst, src, len) /\ Done) =>
        /\ ret = SUCCESS
        /\ \A i \in Idx : At(mem, dst, i) = At(mem, src, i)
        /\ \A i \in Idx : At(mem, src, i) = At(mem0, src, i)

\* A copy of at least two elements that changed the last destination cell.
C2_Witness ==
    /\ fn = "copy" /\ dst # NULL /\ src # NULL /\ ~Overlap(dst, src, len) /\ Done
    /\ len >= 2
    /\ At(mem, dst, len - 1) # At(mem0, dst, len - 1)

\* The int ok points to, as it was at entry.
OkValue0 == IF ok \in DOMAIN mem0 THEN mem0[ok] ELSE okslot0

\* The validity slot is one of the elements of the sequence passed in.
OkInSequence == ok \in Range(arr, len)

\* C3, as claimed: array_max_ptr on a present sequence of length L >= 1
\* returns a value that is >= every element and equal to one of them; a
\* present validity slot holds 1 on return; the sequence is not modified.
C3_MaxIsMaximum ==
    (fn = "max" /\ arr # NULL /\ len >= 1 /\ Done) =>
        /\ \A i \in Idx : ret >= At(mem0, arr, i)
        /\ \E j \in Idx : ret = At(mem0, arr, j)
        /\ ok # NULL => OkValue = 1
        /\ mem = mem0

\* C3, amended: the same, for a validity slot that is absent or is not an
\* element of the sequence passed in.
C3_MaxIsMaximumOwnSlot ==
    (fn = "max" /\ arr # NULL /\ len >= 1 /\ ~OkInSequence /\ Done) =>
        /\ \A i \in Idx : ret >= At(mem0, arr, i)
        /\ \E j \in Idx : ret = At(mem0, arr, j)
        /\ ok # NULL => OkValue = 1
        /\ mem = mem0

\* A scan that replaced the running maximum: the result is not the first
\* element.
C3_Witness ==
    /\ fn = "max" /\ arr # NULL /\ len >= 3 /\ Done
    /\ ok = OkAddr /\ okslot0 # 1 /\ okslot = 1
    /\ ret > At(mem0, arr, 0)
    /\ ret > At(mem0, arr, len - 1)

\* C4: array_max_ptr with an absent sequence (any length) or with length 0
\* (any sequence) returns INT_MIN without reading an element, and a present
\* validity slot holds 0 on return.
C4_MaxInvalid ==
    (fn = "max" /\ (arr = NULL \/ len = 0)) =>
        /\ rd = {}
        /\ pc \in {"entry", "check", "done"}
        /\ Done => ret = INT_MIN /\ (ok # NULL => OkValue = 0)

\* An absent sequence with a positive length, and a slot that held 1.
C4_Witness ==
    /\ fn = "max" /\ arr = NULL /\ len > 0 /\ Done
    /\ ok # NULL /\ OkValue0 = 1 /\ OkValue = 0

\* The sum of the len elements at q in m as a mathematical integer, reduced
\* modulo 2^32 to a two's-complement value.  The elements are added in two
\* 16-bit halves, which keeps every intermediate number small.
Lo16(x) == x % 65536
Hi16(x) == (x - Lo16(x)) \div 65536

RECURSIVE SumOver(_, _, _, _)
SumOver(F(_), m, q, n) ==
    IF n = 0 THEN 0 ELSE F(At(m, q, n - 1)) + SumOver(F, m, q, n - 1)

WrappedMathSum(m, q, n) ==
    LET lo == SumOver(Lo16, m, q, n)
        hi == (SumOver(Hi16, m, q, n) + (lo \div 65536)) % 65536
    IN  (IF hi >= 32768 THEN hi - 65536 ELSE hi) * 65536 + (lo % 65536)

\* Some partial sum a[0] + ... + a[k], k < n, leaves the range of int.
RECURSIVE PrefixOverflows(_, _, _)
PrefixOverflows(m, q, n) ==
    IF n = 0 THEN FALSE
    ELSE \/ PrefixOverflows(m, q, n - 1)
         \/ AddOverflows(WrappedMathSum(m, q, n - 1), At(m, q, n - 1))

\* C5: array_sum_ptr on a present sequence of length L >= 0 returns the
\* mathematical sum of the elements reduced modulo 2^32 (two's complement)
\* and does not modify the sequence; for L = 0 it returns 0 whether or not
\* the sequence is present.
C5_SumWraps ==
    (fn = "sum" /\ (arr # NULL \/ len = 0)) =>
        /\ pc # "trap"
        /\ mem = mem0
        /\ Done => ret = (IF len = 0 THEN 0 ELSE WrappedMathSum(mem0, arr, len))

\* What array_sum_ptr does guarantee: when no partial sum overflows, the
\* call returns the exact sum, and it never modifies the sequence.
SumExactWithoutOverflow ==
    (fn = "sum" /\ (arr # NULL \/ len = 0)) =>
        /\ mem = mem0
        /\ pc = "trap" => PrefixOverflows(mem0, arr, len)
        /\ (Done /\ ~PrefixOverflows(mem0, arr, len)) =>
               ret = SumOver(LAMBDA x : x, mem0, arr, len)

\* A required reference is absent and the length is positive.
AbsentCall ==
    /\ len > 0
    /\ \/ fn \in {"sum", "reverse"} /\ arr = NULL
       \/ fn = "copy" /\ (dst = NULL \/ src = NULL)

\* C6: with length > 0 and a required reference absent, array_reverse_ptr
\* and array_copy_ptr return -1 and array_sum_ptr returns 0, and no element
\* of any sequence is read or written (array_copy_ptr with a present dst
\* and an absent src leaves dst unchanged).
C6_AbsentRejected ==
    AbsentCall =>
        /\ rd = {} /\ wr = {} /\ mem = mem0
        /\ pc \in {"entry", "done"}
        /\ Done => ret = (IF fn = "sum" THEN 0 ELSE INVALID)

\* array_copy_ptr with a present dst and an absent src has returned.
C6_Witness ==
    /\ fn = "copy" /\ dst # NULL /\ src = NULL /\ len >= 2 /\ Done
    /\ ret = INVALID
    /\ \A i \in Idx : At(mem, dst, i) = At(mem0, dst, i)

\* Every reference the function requires is present.
AllPresent ==
    IF fn = "copy" THEN dst # NULL /\ src # NULL ELSE arr # NULL

\* The failure signal of array_reverse_ptr and array_copy_ptr.
StatusFailure == fn \in {"reverse", "copy"} /\ Done /\ ret = INVALID

\* The failure signal of array_max_ptr, as a caller that passed a validity
\* slot sees it.
MaxFailure == fn = "max" /\ Done /\ ok # NULL /\ ret = INT_MIN /\ OkValue = 0

\* C7, as claimed: a call in which every required reference is present, or
\* in which the length is 0, never produces the failure signal of its
\* function (-1 for Reverse and Copy; INT_MIN with the flag at failure for
\* Max).
C7_FailureOnlyAbsentPositive ==
    (AllPresent \/ len = 0) => ~StatusFailure /\ ~MaxFailure

\* C7, amended: array_reverse_ptr and array_copy_ptr never return -1 when
\* every required reference is present or the length is 0; array_max_ptr
\* never produces its failure signal for a present sequence of positive
\* length, and always produces it for length 0, present sequence or not.
C7_FailureCauses ==
    /\ (AllPresent \/ len = 0) => ~StatusFailure
    /\ (AllPresent /\ len > 0) => ~MaxFailure
    /\ (fn = "max" /\ Done /\ ok # NULL /\ len = 0) => MaxFailure

\* array_max_ptr returned INT_MIN as the maximum of a present sequence, with
\* the flag at success.
C7_Witness ==
    /\ fn = "max" /\ arr # NULL /\ len >= 2 /\ ok # NULL /\ Done
    /\ ret = INT_MIN /\ OkValue = 1

\* C8: in a call of array_max_ptr with a present validity slot, the first
\* step sets the slot to 0 before the sequence or the length is examined;
\* the slot holds 0 in every state up to the end of the scan; 1 is written
\* only once the scan has passed all L elements.
C8_FlagProtocol ==
    [][ (fn = "max" /\ ok # NULL) =>
            /\ pc = "entry" => (OkValue' = 0 /\ pc' = "check" /\ rd' = {})
            /\ pc' \in {"check", "loop"} => OkValue' = 0
            /\ (Done' /\ MaxIsInvalid(arr, len)) => OkValue' = 0
            /\ OkValue' # 0 =>
                   /\ OkValue' = 1 /\ pc = "loop" /\ Done'
                   /\ p = arr + len /\ rd = Range(arr, len) ]_vars

\* In the middle of a scan, the slot that held 1 at entry holds 0.
C8_Witness ==
    /\ fn = "max" /\ ok # NULL /\ OkValue0 = 1
    /\ pc = "loop" /\ iters >= 1 /\ p < end
    /\ OkValue = 0

\* The number of writes array_max_ptr makes to a present validity slot.
OkWrites == IF MaxIsInvalid(arr, len) THEN 1 ELSE 2

\* Whatever is not the validity slot is as it was at entry.
OnlySlotWritten ==
    /\ \A a \in DOMAIN mem \ {ok} : mem[a] = mem0[a]
    /\ ok # OkAddr => okslot = okslot0
    /\ wr \subseteq {ok}

\* C9, as claimed: a call of array_max_ptr with a present validity slot
\* makes exactly one write to it, for valid and invalid inputs alike, and
\* writes nothing when the slot is absent.
C9_OneWrite ==
    (fn = "max" /\ Done) =>
        /\ okw = (IF ok # NULL THEN 1 ELSE 0)
        /\ ok = NULL => (okslot = okslot0 /\ mem = mem0 /\ wr = {})
        /\ OnlySlotWritten

\* C9, amended: with a present validity slot, a call on invalid input
\* (absent sequence or length 0) makes exactly one write to it, the 0, and a
\* call on valid input makes exactly two, the 0 and then the 1; with an
\* absent slot the call writes nothing at all.
C9_OneOrTwoWrites ==
    (fn = "max" /\ Done) =>
        /\ okw = (IF ok # NULL THEN OkWrites ELSE 0)
        /\ ok = NULL => (okslot = okslot0 /\ mem = mem0 /\ wr = {})
        /\ OnlySlotWritten

\* A call on valid input has written the slot twice.
C9_Witness ==
    /\ fn = "max" /\ Done /\ ok # NULL /\ arr # NULL /\ len >= 1
    /\ okw = 2 /\ OkValue = 1

\* The cells a call may read and may write.  array_sum_ptr writes none, and
\* array_max_ptr only the validity slot, when that is a cell of the
\* sequence.
Readable == IF fn = "copy" THEN Range(src, len) ELSE Range(arr, len)
Writable ==
    IF fn = "copy" THEN Range(dst, len)
    ELSE IF fn = "reverse" THEN Range(arr, len)
    ELSE IF fn = "max" THEN Range(arr, len) \cap {ok}
    ELSE {}

\* A call has ended: it returned, or (array_sum_ptr on overflow) aborted.
Ended == pc \in {"done", "trap"}

C10_Bounds ==
    AllPresent =>
        /\ rd \subseteq Readable
        /\ wr \subseteq Writable
        /\ iters <= len
        /\ (fn = "reverse" /\ pc # "entry") =>
               /\ arr <= left /\ left <= right /\ right <= arr + len
               /\ swaps <= len \div 2
               /\ len % 2 = 1 => (arr + len \div 2) \notin wr
               /\ Done => swaps = len \div 2

\* C10: with present sequences of length L >= 0, every element read or
\* written by the four functions is at an index in [0, L) of the sequence
\* passed in, and every loop terminates; in array_reverse_ptr the cursors
\* satisfy 0 <= left <= right <= L, exactly floor(L/2) swaps are made and
\* for odd L the middle element is never written; array_copy_ptr writes no
\* destination position at or beyond L.
C10_InBoundsAndTerminates ==
    /\ []C10_Bounds
    /\ AllPresent ~> Ended

\* A reversal of an odd number of elements, at least three, has returned.
C10_Witness ==
    /\ fn = "reverse" /\ arr # NULL /\ len % 2 = 1 /\ len >= 3 /\ Done
    /\ swaps = len \div 2 /\ left = right

====
